---- MODULE Spec2Model ----
(***************************************************************************)
(* exo-join: joining several exodusII mesh files into one                  *)
(* (src/exo-join/main.cpp).  The state is that of one run of join_files:   *)
(* the accumulators it fills while reading the input files, the position   *)
(* of the run, and what has been written to the output file so far.        *)
(*                                                                         *)
(* Coordinates are integers counting steps of SNAP_TOLERANCE / Grid, so a  *)
(* raw coordinate may lie strictly between two multiples of the snap       *)
(* tolerance.  Input files are well formed: connectivity entries refer to  *)
(* local nodes of the file and every variable has one value per node.      *)
(***************************************************************************)
EXTENDS Integers, Sequences, FiniteSets, TLC

\* ---------------------------------------------------------------- bounds
MaxFiles == 2
MaxNodes == 2
Grid == 2

\* main() runs join_files only with more than two positional arguments,
\* the last of which is the output: at least two inputs.
MinFiles == 2

\* ------------------------------------------------------------- utilities
Abs(v) == IF v < 0 THEN 0 - v ELSE v

RECURSIVE SeqsUpTo(_, _)
SeqsUpTo(S, n) ==
    IF n = 0 THEN {<<>>}
    ELSE LET shorter == SeqsUpTo(S, n - 1)
         IN  shorter \cup {Append(s, e) : s \in {q \in shorter : Len(q) = n - 1}, e \in S}

RECURSIVE SetToSortedSeq(_)
SetToSortedSeq(S) ==
    IF S = {} THEN <<>>
    ELSE LET m == CHOOSE a \in S : \A b \in S : a <= b
         IN  <<m>> \o SetToSortedSeq(S \ {m})

\* --------------------------------------------------------- element types
\* element_type: the tag of a block as an ElementType; "throw" stands for
\* the std::runtime_error("Unsupported element type ...").
element_type(str) ==
    IF str = "BAR2" THEN "SEGMENT2"
    ELSE IF str = "TRI" \/ str = "TRI3" THEN "TRI3"
    ELSE IF str = "QUAD" \/ str = "QUAD4" THEN "QUAD4"
    ELSE "throw"

element_type_str(et) ==
    IF et = "SEGMENT2" THEN "BAR2"
    ELSE IF et = "TRI3" THEN "TRI3"
    ELSE IF et = "QUAD4" THEN "QUAD4"
    ELSE IF et = "TET4" THEN "TET4"
    ELSE "throw"

\* ------------------------------------------------------------- snapping
\* std::round: to the nearest integer, halfway cases away from zero.
Round(num, den) ==
    LET q == (2 * Abs(num) + den) \div (2 * den)
    IN  IF num < 0 THEN 0 - q ELSE q

SNAP_TOLERANCE == Grid

\* (mutation of snap: truncation instead of std::round)
snap_trunc(v, tol) == (v \div tol) * tol

snap(v, tol) == Round(v, tol) * tol

snap_point(p, tol) == <<snap(p[1], tol), snap(p[2], tol), snap(p[3], tol)>>

\* ------------------------------------------------------------ input files
\* What the exodusII reader reports of a file.  Nodes lie on the x axis, on
\* a multiple of the snap tolerance or one step off it;
\* each block holds one element over the file's nodes, in one of two
\* orientations; a nodal value tells its file's level, time step, variable
\* and local node apart.
Dims == {1, 2, 3}
XCoords == {0, 1, Grid}
BlockIds == {3, 7}
Tags == {"BAR2", "TRI", "TRI3", "QUAD4", "TET4", "HEX8"}
NameLists == {<<"u">>, <<"w">>, <<"u", "w">>}
TimeLists == {<<1>>, <<1, 2>>}
Levels == {1, 2}

NodesPerElem(tag) ==
    CASE tag = "BAR2" -> 2
      [] tag \in {"TRI", "TRI3"} -> 3
      [] tag \in {"QUAD", "QUAD4", "TETRA", "TET4"} -> 4
      [] OTHER -> 8

Connect(tag, orient, n) ==
    [k \in 1 .. NodesPerElem(tag) |->
        IF orient = "fwd" THEN ((k - 1) % n) + 1 ELSE n - ((k - 1) % n)]

Val(lvl, t, v, k) == lvl * 1000 + t * 100 + v * 10 + k

MkFile(d, xs, ids, tag, orient, names, ts, lvl) ==
    [dim       |-> d,
     x         |-> xs,
     y         |-> [k \in DOMAIN xs |-> 0],
     z         |-> [k \in DOMAIN xs |-> 0],
     blocks    |-> LET sorted == SetToSortedSeq(ids)
                   IN  [b \in DOMAIN sorted |->
                          [id      |-> sorted[b],
                           type    |-> tag,
                           nn      |-> NodesPerElem(tag),
                           connect |-> Connect(tag, orient, Len(xs))]],
     var_names |-> names,
     times     |-> ts,
     vals      |-> [t \in DOMAIN ts |-> [v \in DOMAIN names |->
                      [k \in DOMAIN xs |-> Val(lvl, t, v, k)]]]]

BaseXs == <<0, Grid>>

\* The files a run may be given: each differs from the base file in its
\* dimension, in its nodes, in its blocks, or in its nodal variables.
DimFiles ==
    {MkFile(d, BaseXs, {7}, "BAR2", "fwd", <<"u">>, <<1>>, 1) : d \in Dims}

\* the nodes of a file are distinct points (they may snap to one)
Distinct(xs) == \A j, k \in DOMAIN xs : j # k => xs[j] # xs[k]

GeomFiles ==
    {MkFile(2, xs, {7}, "BAR2", "fwd", <<"u">>, <<1>>, 1) :
        xs \in {q \in SeqsUpTo(XCoords, MaxNodes) : q # <<>> /\ Distinct(q)}}

BlockFiles ==
    {MkFile(2, BaseXs, ids, tag, "fwd", <<"u">>, <<1>>, 1) :
        ids \in (SUBSET BlockIds) \ {{}}, tag \in Tags}

VarFiles ==
    {MkFile(2, BaseXs, {7}, "BAR2", "fwd", names, ts, lvl) :
        names \in NameLists, ts \in TimeLists, lvl \in Levels}

\* files over part of the base nodes, in another order, with two variables
\* at two time steps
PartFiles ==
    {MkFile(2, xs, {7}, "BAR2", "rev", <<"u", "w">>, <<1, 2>>, 2) :
        xs \in {<<1>>, <<Grid, 0>>}}

Files == DimFiles \cup GeomFiles \cup BlockFiles \cup VarFiles \cup PartFiles

\* ------------------------------------------------------------------ state
VARIABLES
    n_inputs,            \* inputs.size()
    inputs,              \* the input files opened so far, in processing order
    pc,                  \* position of the run
    dim, node_map, index_set, block_ids, block_element_type, block_connect,
    num_nodes_per_elem, nodal_var_names, times, nodal_vals,
    out,                 \* the output file
    values, t_idx, v_idx, \* write_nodal_variables: buffer and loop counters
    err, exit_code

vars == <<n_inputs, inputs, pc, dim, node_map, index_set, block_ids,
          block_element_type, block_connect, num_nodes_per_elem,
          nodal_var_names, times, nodal_vals, out, values, t_idx, v_idx,
          err, exit_code>>

acc == <<dim, node_map, index_set, block_ids, block_element_type,
         block_connect, num_nodes_per_elem, nodal_var_names, times, nodal_vals>>

wr == <<values, t_idx, v_idx>>

EmptyMap == [k \in {} |-> 0]

NoOutput ==
    [opened |-> FALSE, init |-> <<>>, coords |-> <<>>, blocks |-> <<>>,
     names_written |-> FALSE, var_names |-> <<>>, times |-> <<>>,
     vars |-> <<>>, updates |-> 0]

Init ==
    /\ n_inputs \in MinFiles .. MaxFiles
    /\ inputs = <<>>
    /\ pc = "read"
    /\ dim = -1
    /\ node_map = EmptyMap
    /\ index_set = <<>>
    /\ block_ids = {}
    /\ block_element_type = EmptyMap
    /\ block_connect = EmptyMap
    /\ num_nodes_per_elem = EmptyMap
    /\ nodal_var_names = <<>>
    /\ times = <<>>
    /\ nodal_vals = <<>>
    /\ out = NoOutput
    /\ values = <<>>
    /\ t_idx = 0
    /\ v_idx = 0
    /\ err = ""
    /\ exit_code = -1

\* ---------------------------------------------------------------- reading
IdsOf(f) == {f.blocks[b].id : b \in DOMAIN f.blocks}

BlockOf(f, id) == f.blocks[CHOOSE b \in DOMAIN f.blocks : f.blocks[b].id = id]

\* read_element_types: block id -> element type of ONE file; it throws when
\* element_type throws for one of the file's blocks.
read_element_types(f) ==
    [id \in IdsOf(f) |-> element_type(BlockOf(f, id).type)]

read_element_types_throws(f) ==
    \E b \in DOMAIN f.blocks : element_type(f.blocks[b].type) = "throw"

read_block_ids(f, ids) == ids \cup IdsOf(f)

\* (mutation of emplace: operator[]-like, an existing key gets a new id)
emplace_overwrite(nm, pt) ==
    [q \in DOMAIN nm \cup {pt} |->
        IF q = pt THEN Cardinality(DOMAIN nm) ELSE nm[q]]

\* node_map.emplace(pt, node_map.size()): the map with pt inserted under the
\* next id unless pt is already a key.
emplace(nm, pt) ==
    IF pt \in DOMAIN nm THEN nm
    ELSE [q \in DOMAIN nm \cup {pt} |->
            IF q = pt THEN Cardinality(DOMAIN nm) ELSE nm[q]]

RawPoint(f, d, k) == <<f.x[k], f.y[k], IF d = 2 THEN 0 ELSE f.z[k]>>

\* read_file, for dim 2 or 3: the node map after the first k local nodes
\* of f, and the index set of the file (local ordinal -> global id).
RECURSIVE NodeMapAfter(_, _, _, _)
NodeMapAfter(f, d, nm, k) ==
    IF k = 0 THEN nm
    ELSE emplace(NodeMapAfter(f, d, nm, k - 1),
                 snap_point(RawPoint(f, d, k), SNAP_TOLERANCE))

read_file_is(f, d, nm) ==
    [k \in DOMAIN f.x |->
        NodeMapAfter(f, d, nm, k)[snap_point(RawPoint(f, d, k), SNAP_TOLERANCE)]]

\* (mutation of remap_connectivity: the entries come out in reverse order)
remap_connectivity_reversed(connect, is) ==
    [k \in DOMAIN connect |-> is[connect[Len(connect) + 1 - k]] + 1]

\* connectivity is 1-based on both sides, is holds 0-based global ids.
remap_connectivity(connect, is) ==
    [k \in DOMAIN connect |-> is[connect[k]] + 1]

\* read_elements' side effect on the global num_nodes_per_elem.
read_elements_nn(f, nn) ==
    [id \in DOMAIN nn \cup IdsOf(f) |->
        IF id \in IdsOf(f) THEN BlockOf(f, id).nn ELSE nn[id]]

\* the loop over the file's blocks: remap and append to the accumulator.
append_blocks(f, is, bc) ==
    [id \in DOMAIN bc \cup IdsOf(f) |->
        (IF id \in DOMAIN bc THEN bc[id] ELSE <<>>)
        \o (IF id \in IdsOf(f)
            THEN remap_connectivity(BlockOf(f, id).connect, is) ELSE <<>>)]

\* (mutation of next_var_names: the names of the first file are kept)
next_var_names_first(old, f) == IF old = <<>> THEN f.var_names ELSE old

\* nodal_var_names = ex_in.get_nodal_variable_names(); times = ex_in.get_times()
next_var_names(old, f) == f.var_names

next_times(old, f) == f.times

read_nodal_vals(f) == f.vals

Throw(msg) ==
    /\ pc' = "error"
    /\ err' = msg
    /\ exit_code' = 1

\* One iteration of the reading loop of join_files.
ReadFile ==
    /\ pc = "read"
    /\ Len(inputs) < n_inputs
    /\ \E f \in Files :
         LET types == read_element_types(f)
             is    == read_file_is(f, f.dim, node_map)
         IN  /\ inputs' = Append(inputs, f)
             /\ dim' = f.dim
             /\ block_ids' = read_block_ids(f, block_ids)
             /\ IF read_element_types_throws(f)
                THEN /\ Throw("Unsupported element type")
                     /\ UNCHANGED <<node_map, index_set, block_element_type,
                                    block_connect, num_nodes_per_elem,
                                    nodal_var_names, times, nodal_vals>>
                ELSE IF f.dim \notin {2, 3}
                THEN /\ Throw("Unsupported dimension")
                     /\ block_element_type' = types
                     /\ UNCHANGED <<node_map, index_set, block_connect,
                                    num_nodes_per_elem, nodal_var_names,
                                    times, nodal_vals>>
                ELSE /\ block_element_type' = types
                     /\ node_map' = NodeMapAfter(f, f.dim, node_map, Len(f.x))
                     /\ index_set' = Append(index_set, is)
                     /\ num_nodes_per_elem' = read_elements_nn(f, num_nodes_per_elem)
                     /\ block_connect' = append_blocks(f, is, block_connect)
                     /\ nodal_var_names' = next_var_names(nodal_var_names, f)
                     /\ times' = next_times(times, f)
                     /\ nodal_vals' = Append(nodal_vals, read_nodal_vals(f))
                     /\ UNCHANGED <<pc, err, exit_code>>
    /\ UNCHANGED <<n_inputs, out, wr>>

\* ---------------------------------------------------------------- writing
RECURSIVE SumSeq(_)
SumSeq(s) == IF s = <<>> THEN 0 ELSE s[1] + SumSeq(Tail(s))

NElemsInBlock(id) == Len(block_connect[id]) \div num_nodes_per_elem[id]

\* exodusIIcpp::File ex_out(output, WRITE) and ex_out.init(...)
OpenOutput ==
    /\ pc = "read"
    /\ Len(inputs) = n_inputs
    /\ LET ids == SetToSortedSeq(block_ids)
           n_elems == SumSeq([b \in DOMAIN ids |-> NElemsInBlock(ids[b])])
       IN  out' = [out EXCEPT !.opened = TRUE,
                              !.init = [dim |-> dim,
                                        n_nodes |-> Cardinality(DOMAIN node_map),
                                        n_elems |-> n_elems,
                                        n_elem_blks |-> Cardinality(DOMAIN block_connect)]]
    /\ pc' = "write_nodes"
    /\ UNCHANGED <<n_inputs, inputs, acc, wr, err, exit_code>>

\* x[idx] = pt.x, y[idx] = pt.y (and z): the coordinates written for the
\* global id g are those of the key of node_map that maps to g.
KeyOf(nm, g) == CHOOSE pt \in DOMAIN nm : nm[pt] = g

coords_of(nm, d) ==
    [k \in 1 .. Cardinality(DOMAIN nm) |->
        IF \E pt \in DOMAIN nm : nm[pt] = k - 1
        THEN LET pt == KeyOf(nm, k - 1)
             IN  IF d = 2 THEN <<pt[1], pt[2]>> ELSE pt
        ELSE IF d = 2 THEN <<0, 0>> ELSE <<0, 0, 0>>]

write_nodes ==
    /\ pc = "write_nodes"
    /\ IF dim \in {2, 3}
       THEN /\ out' = [out EXCEPT !.coords = coords_of(node_map, dim)]
            /\ pc' = IF block_ids = {} THEN "write_names" ELSE "write_elements"
            /\ UNCHANGED <<err, exit_code>>
       ELSE /\ Throw("Unsupported dimension")
            /\ UNCHANGED out
    /\ UNCHANGED <<n_inputs, inputs, acc, wr>>

\* One iteration of the loop of write_elements, over block_ids in ascending
\* order; std::map::at throws std::out_of_range for a missing key.
WrittenIds == {out.blocks[b].id : b \in DOMAIN out.blocks}

write_elements ==
    /\ pc = "write_elements"
    /\ LET rest   == block_ids \ WrittenIds
           blk_id == CHOOSE a \in rest : \A b \in rest : a <= b
       IN  IF blk_id \notin DOMAIN block_connect
              \/ blk_id \notin DOMAIN block_element_type
           THEN /\ Throw("out_of_range")
                /\ UNCHANGED out
           ELSE IF element_type_str(block_element_type[blk_id]) = "throw"
           THEN /\ Throw("Unsupported element type")
                /\ UNCHANGED out
           ELSE /\ out' = [out EXCEPT !.blocks = Append(@,
                             [id      |-> blk_id,
                              type    |-> element_type_str(block_element_type[blk_id]),
                              n_elems |-> NElemsInBlock(blk_id),
                              connect |-> block_connect[blk_id]])]
                /\ pc' = IF rest = {blk_id} THEN "write_names" ELSE "write_elements"
                /\ UNCHANGED <<err, exit_code>>
    /\ UNCHANGED <<n_inputs, inputs, acc, wr>>

\* ------------------------------------------------------- nodal variables
\* exo.write_nodal_var_names(var_names); std::vector<double> values(n_nodes)
write_var_names ==
    /\ pc = "write_names"
    /\ out' = [out EXCEPT !.names_written = TRUE, !.var_names = nodal_var_names]
    /\ values' = [g \in 1 .. Cardinality(DOMAIN node_map) |-> 0]
    /\ t_idx' = 1
    /\ v_idx' = 1
    /\ pc' = IF times = <<>> THEN "done" ELSE "write_time"
    /\ exit_code' = IF times = <<>> THEN 0 ELSE exit_code
    /\ UNCHANGED <<n_inputs, inputs, acc, err>>

\* exo.write_time(t + 1, times[t]); with no variable the time step is
\* flushed at once.
write_time ==
    /\ pc = "write_time"
    /\ LET last == t_idx = Len(times)
           none == nodal_var_names = <<>>
       IN  /\ out' = [out EXCEPT !.times = Append(@, times[t_idx]),
                                 !.updates = IF none THEN @ + 1 ELSE @]
           /\ pc' = IF ~none THEN "write_var"
                    ELSE IF last THEN "done" ELSE "write_time"
           /\ t_idx' = IF none /\ ~last THEN t_idx + 1 ELSE t_idx
           /\ exit_code' = IF none /\ last THEN 0 ELSE exit_code
    /\ v_idx' = 1
    /\ UNCHANGED <<n_inputs, inputs, acc, values, err>>

\* scatter: dest[idx[i]] = src[i] for i in order (idx holds 0-based ids).
RECURSIVE scatter_upto(_, _, _, _)
scatter_upto(src, idx, dest, k) ==
    IF k = 0 THEN dest
    ELSE [scatter_upto(src, idx, dest, k - 1) EXCEPT ![idx[k] + 1] = src[k]]

\* (mutation of scatter: the loop stops one entry short)
scatter_short(src, idx, dest) == scatter_upto(src, idx, dest, Len(src) - 1)

scatter(src, idx, dest) == scatter_upto(src, idx, dest, Len(src))

\* var_values[fi][t][var_idx] exists
Supplies(fi, t, v) ==
    /\ t \in DOMAIN nodal_vals[fi]
    /\ v \in DOMAIN nodal_vals[fi][t]

\* Reading var_values[fi][t][var_idx] past the end of a vector is undefined:
\* the run crashes, or goes on with whatever lies there.
UBOutcomes == {"crash", "garbage"}
GarbageVals == {0, 99}

\* the loop over the files for one (t, var_idx): scatter each in order.
RECURSIVE scatter_files(_, _, _, _, _)
scatter_files(t, v, dest, fi, junk) ==
    IF fi = 0 THEN dest
    ELSE LET before == scatter_files(t, v, dest, fi - 1, junk)
             vals   == IF Supplies(fi, t, v) THEN nodal_vals[fi][t][v]
                       ELSE [k \in DOMAIN index_set[fi] |-> junk]
         IN  scatter(vals, index_set[fi], before)

\* One iteration of the loop over the variables of a time step:
\* scatter every file, exo.write_nodal_var, and exo.update() after the last.
write_nodal_var ==
    /\ pc = "write_var"
    /\ \E o \in UBOutcomes, junk \in GarbageVals :
         LET defined == \A fi \in DOMAIN nodal_vals : Supplies(fi, t_idx, v_idx)
             lastv   == v_idx = Len(nodal_var_names)
             lastt   == t_idx = Len(times)
             buf     == scatter_files(t_idx, v_idx, values, Len(nodal_vals), junk)
         IN  IF ~defined /\ o = "crash"
             THEN /\ pc' = "crash"
                  /\ UNCHANGED <<out, values, t_idx, v_idx, exit_code>>
             ELSE /\ values' = buf
                  /\ out' = [out EXCEPT
                        !.vars = Append(@, [t |-> t_idx, v |-> v_idx, values |-> buf]),
                        !.updates = IF lastv THEN @ + 1 ELSE @]
                  /\ v_idx' = IF lastv THEN 1 ELSE v_idx + 1
                  /\ t_idx' = IF lastv /\ ~lastt THEN t_idx + 1 ELSE t_idx
                  /\ pc' = IF ~lastv THEN "write_var"
                           ELSE IF lastt THEN "done" ELSE "write_time"
                  /\ exit_code' = IF lastv /\ lastt THEN 0 ELSE exit_code
    /\ UNCHANGED <<n_inputs, inputs, acc, err>>

Next ==
    \/ ReadFile
    \/ OpenOutput
    \/ write_nodes
    \/ write_elements
    \/ write_var_names
    \/ write_time
    \/ write_nodal_var

Spec == Init /\ [][Next]_vars

\* ======================================================================
\* Properties.  What they say of the inputs is computed from `inputs`, the
\* files as the reader reported them, not from the accumulators.
\* ======================================================================
NRead == Len(index_set)

Locals == {<<fi, k>> : fi \in 1 .. NRead, k \in 1 .. MaxNodes + 1}

LocalNodes == {n \in Locals : n[2] \in DOMAIN inputs[n[1]].x}

Raw(n) == RawPoint(inputs[n[1]], inputs[n[1]].dim, n[2])

Before(m, n) == m[1] < n[1] \/ (m[1] = n[1] /\ m[2] < n[2])

\* q is v rounded to the nearest multiple of the grid, halves away from zero
IsQuantOf(q, v) ==
    /\ q % Grid = 0
    /\ 2 * Abs(q - v) <= Grid
    /\ 2 * Abs(q - v) = Grid => Abs(q) > Abs(v)

QP(n) == snap_point(Raw(n), SNAP_TOLERANCE)

Seen == {QP(n) : n \in LocalNodes}

FirstOf(p) == CHOOSE n \in LocalNodes :
                 /\ QP(n) = p
                 /\ \A m \in LocalNodes : QP(m) = p => ~Before(m, n)

\* C1: after any number of files read, node_map maps exactly the distinct
\* quantized points seen so far one-to-one onto 0..k-1, the Nth distinct
\* point met (files in order, local nodes in file order) having id N-1; the
\* node count given to the output is the number of distinct points.
C1_NodeMapBijection ==
    LET nodes == LocalNodes
        qp    == [n \in nodes |-> QP(n)]
        seen  == {qp[n] : n \in nodes}
        first == [p \in seen |->
                    CHOOSE n \in nodes :
                       /\ qp[n] = p
                       /\ \A m \in nodes : qp[m] = p => ~Before(m, n)]
        \* the number of distinct points met before the first occurrence of p
        rank  == [p \in seen |->
                    Cardinality({q \in seen : Before(first[q], first[p])})]
    IN  /\ DOMAIN node_map = seen
        /\ \A p \in seen : node_map[p] = rank[p]
        /\ {node_map[p] : p \in DOMAIN node_map} = 0 .. Cardinality(seen) - 1
        /\ out.opened => out.init.n_nodes = Cardinality(seen)

C1_Witness ==
    /\ out.opened
    /\ NRead = 2
    /\ Cardinality(Seen) >= 2
    /\ Cardinality(Seen) < Len(inputs[1].x) + Len(inputs[2].x)
    /\ \E n \in LocalNodes : n[1] = 2 /\ node_map[QP(n)] < Len(inputs[1].x)
    /\ \E n \in LocalNodes : Raw(n) # QP(n)

\* the documented precondition of the scatter: every file supplies a value
\* vector for every time step and variable that is written
AllSupply ==
    \A fi \in 1 .. NRead, t \in DOMAIN times, v \in DOMAIN nodal_var_names :
        /\ t \in DOMAIN inputs[fi].vals
        /\ v \in DOMAIN inputs[fi].vals[t]

MappedTo(g) == {n \in LocalNodes : node_map[QP(n)] = g}

LastOf(g) == CHOOSE n \in MappedTo(g) : \A m \in MappedTo(g) : ~Before(n, m)

\* C3: with every file supplying every (t, v), the vector written for
\* (t, v) holds at each global node g the value of the last file (and in
\* it the last local node) mapped to g, for that same t and v; the buffer
\* is all zero before the first scatter.
C3_LastWriterWins ==
    AllSupply =>
      /\ \A w \in DOMAIN out.vars :
           LET e == out.vars[w]
           IN  /\ DOMAIN e.values = 1 .. Cardinality(Seen)
               /\ \A g \in DOMAIN e.values :
                    LET n == LastOf(g - 1)
                    IN  e.values[g] = inputs[n[1]].vals[e.t][e.v][n[2]]
      /\ (pc \in {"write_time", "write_var"} /\ out.vars = <<>>) =>
           \A g \in DOMAIN values : values[g] = 0

C3_Witness ==
    /\ pc = "done"
    /\ AllSupply
    /\ Len(out.vars) >= 4
    /\ \E g \in 0 .. Cardinality(Seen) - 1 :
         /\ \E m, n \in MappedTo(g) : m[1] # n[1]
         /\ out.vars[1].values[g + 1] # inputs[1].vals[1][1][FirstOf(KeyOf(node_map, g))[2]]
    /\ \E g \in 0 .. Cardinality(Seen) - 1 : \A n \in MappedTo(g) : n[1] = 1

RECURSIVE ExpectedConnect(_, _)
ExpectedConnect(id, fi) ==
    IF fi = 0 THEN <<>>
    ELSE ExpectedConnect(id, fi - 1) \o
         (IF id \in IdsOf(inputs[fi])
          THEN LET c == BlockOf(inputs[fi], id).connect
               IN  [k \in DOMAIN c |-> node_map[QP(<<fi, c[k]>>)] + 1]
          ELSE <<>>)

\* C4: the merged connectivity of a block id is the concatenation, in file
\* order, of the contributing files' connectivity for it, entry by entry in
\* the source order, each entry being the global id (1-based) of the local
\* node it referred to; the block is written with that connectivity.
C4_ConnectivityConcat ==
    /\ DOMAIN block_connect = UNION {IdsOf(inputs[fi]) : fi \in 1 .. NRead}
    /\ \A id \in DOMAIN block_connect :
         block_connect[id] = ExpectedConnect(id, NRead)
    /\ \A b \in DOMAIN out.blocks :
         out.blocks[b].connect = ExpectedConnect(out.blocks[b].id, NRead)

C4_Witness ==
    /\ Len(out.blocks) >= 1
    /\ NRead = 2
    /\ LET id == out.blocks[1].id
           c  == out.blocks[1].connect
       IN  /\ id \in IdsOf(inputs[1]) \cap IdsOf(inputs[2])
           /\ BlockOf(inputs[1], id).connect # BlockOf(inputs[2], id).connect
           /\ Len(c) = Len(BlockOf(inputs[1], id).connect)
                       + Len(BlockOf(inputs[2], id).connect)
           /\ c # BlockOf(inputs[1], id).connect \o BlockOf(inputs[2], id).connect
           /\ BlockOf(inputs[2], id).connect[1] > BlockOf(inputs[2], id).connect[2]

\* C6 (as claimed): the coordinates written for a global node are the raw
\* coordinates of the first local node mapped to it.
C6_OriginalCoordsWritten ==
    out.coords # <<>> =>
      \A g \in DOMAIN out.coords :
        LET n == FirstOf(KeyOf(node_map, g - 1))
        IN  \A a \in DOMAIN out.coords[g] : out.coords[g][a] = Raw(n)[a]

\* C6 (amended): the coordinates written for a global node g are, on each
\* axis written, the coordinates of g's key, which is the quantization of
\* every local node mapped to g (through the file's index set), the first
\* as well as the later ones.
C6_QuantizedCoordsWritten ==
    out.coords # <<>> =>
      /\ DOMAIN out.coords = 1 .. Cardinality(DOMAIN node_map)
      /\ \A g \in DOMAIN out.coords :
           /\ Len(out.coords[g]) = dim
           /\ \A a \in DOMAIN out.coords[g] :
                out.coords[g][a] = KeyOf(node_map, g - 1)[a]
           /\ \A n \in LocalNodes :
                index_set[n[1]][n[2]] = g - 1 =>
                  \A a \in DOMAIN out.coords[g] :
                    IsQuantOf(out.coords[g][a], Raw(n)[a])

C6_Witness ==
    /\ pc = "done"
    /\ \E g \in DOMAIN out.coords :
         /\ out.coords[g][1] # Raw(FirstOf(KeyOf(node_map, g - 1)))[1]
         /\ \E m, n \in LocalNodes :
              /\ index_set[m[1]][m[2]] = g - 1
              /\ index_set[n[1]][n[2]] = g - 1
              /\ Raw(m) # Raw(n)

IsPrefix(s, t) == Len(s) <= Len(t) /\ \A k \in DOMAIN s : s[k] = t[k]

\* C10 (as claimed): the names and the time steps recorded, and written,
\* are those of the first file read.
C10_NamesOfFirstFile ==
    NRead >= 1 =>
      /\ nodal_var_names = inputs[1].var_names
      /\ times = inputs[1].times
      /\ out.names_written => out.var_names = inputs[1].var_names
      /\ IsPrefix(out.times, inputs[1].times)

\* C10 (amended): the names and the time steps recorded are those of the
\* last file read, every file read replacing them; the names written are
\* those, the time steps are written in order and, at the end, all of them.
C10_NamesOfLastFile ==
    NRead >= 1 =>
      /\ nodal_var_names = inputs[NRead].var_names
      /\ times = inputs[NRead].times
      /\ out.names_written => out.var_names = inputs[NRead].var_names
      /\ IsPrefix(out.times, inputs[NRead].times)
      /\ pc = "done" => out.times = inputs[NRead].times

C10_Witness ==
    /\ pc = "done"
    /\ NRead = 2
    /\ inputs[1].var_names # inputs[2].var_names
    /\ inputs[1].times # inputs[2].times
    /\ out.var_names = inputs[2].var_names
    /\ out.times = inputs[2].times

\* The element-type table as documented for the join: tag -> element kind.
DocTags == {"BAR2", "TRI", "TRI3", "QUAD", "QUAD4", "TETRA", "TET4"}

DocKind(tag) ==
    CASE tag = "BAR2" -> "SEGMENT2"
      [] tag \in {"TRI", "TRI3"} -> "TRI3"
      [] tag \in {"QUAD", "QUAD4"} -> "QUAD4"
      [] tag \in {"TETRA", "TET4"} -> "TET4"
      [] OTHER -> "unsupported"

TagsOf(f) == {f.blocks[b].type : b \in DOMAIN f.blocks}

\* every file opened so far has dimension 2 or 3 and tags the code accepts
AllAccepted ==
    \A fi \in DOMAIN inputs :
        /\ inputs[fi].dim \in {2, 3}
        /\ \A tag \in TagsOf(inputs[fi]) : element_type(tag) # "throw"

TypeConflict ==
    \E fi, fj \in DOMAIN inputs :
        /\ fi < fj
        /\ \E id \in IdsOf(inputs[fi]) \cap IdsOf(inputs[fj]) :
             DocKind(BlockOf(inputs[fi], id).type)
                # DocKind(BlockOf(inputs[fj], id).type)

\* C2: once two of the files opened report different element types for one
\* block id, the run has failed with a consistency error and the output
\* file has not been opened.
C2_ConsistencyError ==
    (AllAccepted /\ TypeConflict) =>
        /\ pc = "error"
        /\ err = "ConsistencyError"
        /\ ~out.opened

\* C5: the output is opened only after every input file has been read, and
\* a run that ends in an error exits with code 1 having opened and written
\* no output.
C5_NoOutputOnError ==
    /\ out.opened => NRead = n_inputs
    /\ pc = "error" => (exit_code = 1 /\ out = NoOutput)

\* C7: once a file opened has a dimension other than 2 and 3, or two files
\* opened differ in dimension, the run has failed with an
\* unsupported-dimension error and the output file has not been opened.
C7_DimensionError ==
    (/\ \A fi \in DOMAIN inputs :
          \A tag \in TagsOf(inputs[fi]) : element_type(tag) # "throw"
     /\ \/ \E fi \in DOMAIN inputs : inputs[fi].dim \notin {2, 3}
        \/ \E fi, fj \in DOMAIN inputs : inputs[fi].dim # inputs[fj].dim) =>
        /\ pc = "error"
        /\ err = "Unsupported dimension"
        /\ ~out.opened

\* C8: reading fails with an unsupported-element-type error exactly when a
\* block of the file read carries a tag outside BAR2, TRI, TRI3, QUAD,
\* QUAD4, TETRA, TET4; each type recorded is the documented one for its tag
\* and is its own round trip through element_type_str and element_type.
C8_ElementTypeTable ==
    /\ \A fi \in DOMAIN inputs :
         (fi > NRead /\ inputs[fi].dim \in {2, 3}) =>
            \E tag \in TagsOf(inputs[fi]) : tag \notin DocTags
    /\ \A fi \in 1 .. NRead : TagsOf(inputs[fi]) \subseteq DocTags
    /\ (NRead >= 1 /\ pc # "error") =>
         \A id \in IdsOf(inputs[NRead]) :
            LET et == block_element_type[id]
            IN  /\ et = DocKind(BlockOf(inputs[NRead], id).type)
                /\ element_type_str(et) # "throw"
                /\ element_type(element_type_str(et)) = et

\* C9: once every input file has been read, every block id contributed has
\* a recorded element type and nodes-per-element, the run does not end in an
\* error, and the blocks written are one per block id, in ascending order of
\* id, each with len(connectivity) / nodes-per-element elements.
C9_AllBlocksWritten ==
    NRead = n_inputs =>
        /\ block_ids \subseteq DOMAIN block_element_type
        /\ block_ids \subseteq DOMAIN num_nodes_per_elem
        /\ pc # "error"
        /\ pc \in {"write_names", "write_time", "write_var", "done"} =>
             /\ [b \in DOMAIN out.blocks |-> out.blocks[b].id]
                    = SetToSortedSeq(block_ids)
             /\ \A b \in DOMAIN out.blocks :
                  out.blocks[b].n_elems =
                     Len(out.blocks[b].connect)
                        \div num_nodes_per_elem[out.blocks[b].id]

====
